---- MODULE Spec2Model ----
(***************************************************************************)
(* Model of the browser side of the INS monitoring dashboard:              *)
(*   - INSMonitor        (app/static/script.js): polls /api/data and       *)
(*     writes the per-unit display slots and the system status slot;       *)
(*   - TrajectoryMonitor (map script): polls /api/positions and updates    *)
(*     one polyline and one marker per configured unit.                    *)
(* Each script builds its monitor in its own DOMContentLoaded listener;    *)
(* the variable `loaded` says which of the two the page has constructed.   *)
(***************************************************************************)
EXTENDS Integers, Sequences, FiniteSets, TLC

VARIABLES
    loaded,        \* the monitor object the page constructed: "ins" or "traj"
    isRunning,     \* [monitor -> BOOLEAN]            this.isRunning
    intervalId,    \* [monitor -> 0..MaxStarts]       this.intervalId, 0 = undefined
    timers,        \* [monitor -> set of timer ids]   intervals that are still active
    issued,        \* [monitor -> Nat]                number of fetch() calls made so far
    inflight,      \* [monitor -> set of request ids] fetches not yet settled
    display,       \* [element id -> element]         the DOM elements the dashboard writes
    trajectories,  \* [unit -> path]                  latlngs of each unit's polyline
    currentMarkers,\* [unit -> marker]                latlng, opacity and map membership
    lastResp,      \* [monitor -> response]           history: the response handled last
    rendersAfterStop, \* history: updateDisplay calls completed since the last stopMonitoring
    everNonEmpty,  \* [unit -> BOOLEAN] history: a non-empty position list was applied
    lastRendered,  \* [monitor -> Nat] history: the latest request with a rendered snapshot
    call,          \* the last application of a renderer or formatter on its own
    startIgnored   \* [monitor -> BOOLEAN] history: the handler that ran last was a
                   \* startMonitoring call that found the monitor running

\* the variables but startIgnored
progVars == <<loaded, isRunning, intervalId, timers, issued, inflight, display,
              trajectories, currentMarkers, lastResp, rendersAfterStop, everNonEmpty,
              lastRendered, call>>
vars == <<progVars, startIgnored>>

----------------------------------------------------------------------------
(* Bounds of the model *)

MaxRequests == 2    \* fetch() calls per monitor in one behaviour
MaxStarts   == 2    \* setInterval() calls per monitor in one behaviour
MaxPathLen  == 2    \* longest position list the positions endpoint returns
MaxUnitStep == 2    \* largest power of 1024 the byte counts given to formatBytes reach

Monitors == {"ins", "traj"}

----------------------------------------------------------------------------
(* JavaScript values *)

Undef == "<undefined>"                    \* a missing property
Falsy(v) == v \in {Undef, ""}             \* falsy strings in a condition or in ||
Str(v) == IF v = Undef THEN "undefined" ELSE v   \* a value inside a template literal
Truthy(b) == b = "true"                   \* a JSON boolean ("true", "false") or Undef

Some(n) == <<n>>                          \* a number that is present
None == <<>>                              \* a number that is missing
IsDef(x) == x # None
Val(x) == x[1]

\* The glyphs outside ASCII that the script writes are spelled in ASCII here:
\* the degree sign "deg", plus-minus "+/-", check mark "(ok)", cross "(ko)",
\* and the pictographs before the GNSS indicator labels are left out.

Digit2(n) == IF n < 10 THEN "0" \o ToString(n) ELSE ToString(n)

\* Number.prototype.toFixed on an integer-valued number: the integer followed
\* by `decimals` zeros.
Zeros(d) == [i \in 1..d |-> "0"]
RECURSIVE Concat(_)
Concat(seq) == IF seq = <<>> THEN "" ELSE Head(seq) \o Concat(Tail(seq))
toFixed(n, decimals) ==
    IF decimals = 0 THEN ToString(n)
    ELSE ToString(n) \o "." \o Concat(Zeros(decimals))

----------------------------------------------------------------------------
(* The page: the elements document.getElementById can find *)

PageUnits == {"A", "B"}                   \* units that have a card on the page
SignalNames == {"gpsL1", "galileoE1"}     \* keys of pvt.signals with an element
ConstNames == {"gnss1Pos", "gnss2Pos", "odometer"}   \* constituent keys of status.ins
Gnss1Names == {"gnss1Pos"}                \* names for which includes('gnss1') holds
Gnss2Names == {"gnss2Pos"}                \* names for which includes('gnss2') holds

Id(kind, insId) == kind \o "-" \o insId   \* `${kind}-${insId}`

GnssKinds(g) ==
    {g \o "-" \o k : k \in {"section", "status", "pvt-status", "lat", "lon", "alt",
                            "lat-std", "lon-std", "alt-std", "spoofing",
                            "interference", "osnma", "num-sv"} \cup SignalNames}

EkfKinds ==
    {"ekf-ins-solution-type", "ekf-ins-solution-aligned", "ekf-lat", "ekf-lon",
     "ekf-alt", "ekf-lat-std", "ekf-lon-std", "ekf-alt-std"}
    \cup {"ekf-solution-" \o c : c \in ConstNames}
    \cup {"ekf-solution-item-" \o c : c \in ConstNames}

StatusKinds == {"status", "error"}
OtherKinds ==
    {"timestamp", "utc-valid", "utc-clock", "utc-date", "datalogger-status",
     "datalogger-mode", "datalogger-space"}
    \cup GnssKinds("gnss1") \cup GnssKinds("gnss2") \cup EkfKinds
SlotKinds == StatusKinds \cup OtherKinds

ElementIds == {Id(k, u) : k \in SlotKinds, u \in PageUnits} \cup {"statusText"}

\* An element as the page's markup leaves it.
BlankElement ==
    [textContent |-> "", className |-> "", display |-> "", hidden |-> FALSE, color |-> ""]

----------------------------------------------------------------------------
(* INSMonitor: helpers *)

\* updateElement(id, value): textContent = value || '--' when the element exists.
updateElement(d, id, value) ==
    IF id \in DOMAIN d
    THEN [d EXCEPT ![id].textContent = IF Falsy(value) THEN "--" ELSE value]
    ELSE d

\* updateSystemStatus(text, isOnline)
updateSystemStatus(d, text, isOnline) ==
    IF "statusText" \in DOMAIN d
    THEN [d EXCEPT !["statusText"].textContent = text,
                   !["statusText"].color = IF isOnline THEN "#4CAF50" ELSE "#f44336"]
    ELSE d

\* formatCoordinate(value)
formatCoordinate(value) ==
    IF IsDef(value) THEN toFixed(Val(value), 6) \o "deg" ELSE "--"

\* formatNumber(value, decimals, unit)
formatNumber(value, decimals, unit) ==
    IF ~IsDef(value) THEN "--"
    ELSE toFixed(Val(value), decimals) \o (IF unit # "" THEN " " \o unit ELSE "")

\* formatBytes(value), value a non-negative integer below 2^31, for which
\* `parseInt(value, 10) || 0` is the value itself
units == <<"bytes", "kb", "Mb", "Gb", "Tb", "Pb", "Eb", "Zb", "Yb">>
RECURSIVE Pow1024(_)
Pow1024(l) == IF l = 0 THEN 1 ELSE 1024 * Pow1024(l - 1)
\* the loop with the test n > 1024 in place of n >= 1024
RECURSIVE Steps_gt(_, _)
Steps_gt(v, l) == IF v \div Pow1024(l) > 1024 THEN Steps_gt(v, l + 1) ELSE l
RECURSIVE Steps(_, _)
\* the value of l when the loop `while (n >= 1024 && ++l) n = n / 1024` ends
Steps(v, l) == IF v \div Pow1024(l) >= 1024 THEN Steps(v, l + 1) ELSE l
\* (value / D).toFixed(decimals) for decimals 0 or 1 and D a power of 1024:
\* the nearest number with that many decimals, the larger one on a tie.  From
\* D = 1024^2 on the fraction is rounded in units of 1024, which gives the
\* same digit and keeps every intermediate value below 2^31.
toFixedScaled(value, D, decimals) ==
    LET q == value \div D
        r == value % D
        t == IF D <= 1024 THEN (20 * r + D) \div (2 * D)
             ELSE (10 * (r \div 1024) + (10 * (r % 1024)) \div 1024 + D \div 2048)
                      \div (D \div 1024)
    IN  IF decimals = 0 THEN ToString(q + (IF 2 * r >= D THEN 1 ELSE 0))
        ELSE ToString((10 * q + t) \div 10) \o "." \o ToString((10 * q + t) % 10)
formatBytes(value) ==
    LET l == Steps(value, 0)
    IN  toFixedScaled(value, Pow1024(l),
                      IF value \div Pow1024(l) < 10 /\ l > 0 THEN 1 ELSE 0)
        \o " " \o units[l + 1]

\* (100. * usedSpace / totalSpace).toFixed(2)
spaceRatio(usedSpace, totalSpace) ==
    IF totalSpace = 0 THEN (IF usedSpace = 0 THEN "NaN" ELSE "Infinity")
    ELSE LET h == (20000 * usedSpace + totalSpace) \div (2 * totalSpace)
         IN  ToString(h \div 100) \o "." \o Digit2(h % 100)

----------------------------------------------------------------------------
(* INSMonitor: the unit renderer.  A renderer yields the display it leaves  *)
(* and whether it ended by throwing a TypeError (a property read on an      *)
(* undefined value); the writes made before the throw stay in the display.  *)

Done(d)   == [d |-> d, thrown |-> FALSE]
Thrown(d) == [d |-> d, thrown |-> TRUE]
\* the statement after one that yielded r: skipped when r ended by throwing
Bind(r, rest(_)) == IF r.thrown THEN r ELSE rest(r.d)

\* `const e = document.getElementById(id); if (e) { ... }` for the element
\* properties the renderers assign
setText(d, id, text) ==
    IF id \in DOMAIN d THEN [d EXCEPT ![id].textContent = text] ELSE d
setClass(d, id, cls) ==
    IF id \in DOMAIN d THEN [d EXCEPT ![id].className = cls] ELSE d
setTextClass(d, id, text, cls) ==
    IF id \in DOMAIN d THEN [d EXCEPT ![id].textContent = text, ![id].className = cls]
    ELSE d
setStyleDisplay(d, id, v) ==
    IF id \in DOMAIN d THEN [d EXCEPT ![id].display = v] ELSE d
setHidden(d, id, b) ==
    IF id \in DOMAIN d THEN [d EXCEPT ![id].hidden = b] ELSE d

\* updateUTCStatus(insId, utc, insDateTime)
updateUTCStatus(d, insId, utc, insDateTime) ==
    LET vId == Id("utc-valid", insId)
        cId == Id("utc-clock", insId)
        d1 == setTextClass(d, vId, utc.utcStatus,
                           "status-info-value status-info-utc-" \o utc.utcStatus)
        d2 == setTextClass(d1, cId, utc.clockStatus,
                           "status-info-value status-info-clock-" \o utc.clockStatus)
    IN  IF ~utc.present /\ (vId \in DOMAIN d \/ cId \in DOMAIN d)
        THEN Thrown(d)                    \* utc.utcStatus read on undefined
        ELSE Done(updateElement(d2, Id("utc-date", insId), insDateTime))

\* updateDataLogger(insId, dataLogger)
updateDataLogger(d, insId, dataLogger) ==
    LET sId == Id("datalogger-status", insId)
        mId == Id("datalogger-mode", insId)
        pId == Id("datalogger-space", insId)
        d1 == setTextClass(d, sId, dataLogger.status,
                           "status-info-value status-info-dlstatus-" \o dataLogger.status)
        d2 == setTextClass(d1, mId, dataLogger.mode,
                           "status-info-value status-info-dlmode-" \o dataLogger.mode)
    IN  IF ~dataLogger.present
        THEN Done(updateElement(updateElement(updateElement(d, sId, "--"), mId, "--"),
                                pId, "--"))
        ELSE Done(updateElement(d2, pId,
                     formatBytes(dataLogger.usedSpace) \o " / "
                         \o formatBytes(dataLogger.totalSpace) \o " ("
                         \o spaceRatio(dataLogger.usedSpace, dataLogger.totalSpace)
                         \o " %)"))

\* the switch with `case 'sbas':` in the group above its own
gnssSolutionClass_sbasGood(pvtStatus) ==
    CASE pvtStatus \in {"error", "exportRestrictions"} -> "solution-type solution-error"
      [] pvtStatus \in {"noSolution", "static"} -> "solution-type solution-degraded"
      [] pvtStatus \in {"single", "differential", "rtkFloat", "pppFloat", "sbas"} ->
             "solution-type solution-good"
      [] pvtStatus \in {"rtkFixed", "pppFixed"} -> "solution-type solution-best"
      [] OTHER -> "solution-type solution-unknown"

\* the switch on gnssMeasurements.pvt.status
gnssSolutionClass(pvtStatus) ==
    CASE pvtStatus \in {"error", "exportRestrictions"} -> "solution-type solution-error"
      [] pvtStatus \in {"noSolution", "static"} -> "solution-type solution-degraded"
      [] pvtStatus \in {"single", "differential", "rtkFloat", "pppFloat"} ->
             "solution-type solution-good"
      [] pvtStatus \in {"sbas", "rtkFixed", "pppFixed"} -> "solution-type solution-best"
      [] OTHER -> "solution-type solution-unknown"

\* The forEach of updateGNSSSignals over the entries of signals, from names on.
RECURSIVE signalsLoop(_, _, _, _, _)
signalsLoop(d, insId, g, used, names) ==
    IF names = {} THEN d
    ELSE LET constName == CHOOSE c \in names : TRUE
         IN  signalsLoop(setClass(d, Id(g \o "-" \o constName, insId),
                                  IF used[constName] THEN "freq-available"
                                  ELSE "freq-unavailable"),
                         insId, g, used, names \ {constName})

\* updateGNSSSignals(insId, gnssId, signals)
updateGNSSSignals(d, insId, g, signals) ==
    IF signals.present THEN signalsLoop(d, insId, g, signals.used, DOMAIN signals.used)
    ELSE d

\* updateGNSSMeasurements without the assignment of gnssSectionElement.hidden
updateGNSSMeasurements_sectionKept(d, insId, g, gm) ==
    IF ~gm.present THEN Done(d)
    ELSE
      LET pvt == gm.pvt
          d1 == d
          d2 == setTextClass(d1, Id(g \o "-status", insId), gm.status,
                             "gnss-status-" \o gm.status)
          d3 == setTextClass(d2, Id(g \o "-pvt-status", insId), pvt.status,
                             gnssSolutionClass(pvt.status))
          d4 == updateElement(d3, Id(g \o "-lat", insId), formatCoordinate(pvt.latitude))
          d5 == updateElement(d4, Id(g \o "-lon", insId), formatCoordinate(pvt.longitude))
          d6 == updateElement(d5, Id(g \o "-alt", insId), formatNumber(pvt.height, 1, ""))
          d7 == updateElement(d6, Id(g \o "-lat-std", insId),
                              "+/- " \o formatNumber(pvt.latitudeStd, 3, "m"))
          d8 == updateElement(d7, Id(g \o "-lon-std", insId),
                              "+/- " \o formatNumber(pvt.longitudeStd, 3, "m"))
          d9 == updateElement(d8, Id(g \o "-alt-std", insId),
                              "+/- " \o formatNumber(pvt.heightStd, 3, "m"))
          d10 == setText(d9, Id(g \o "-spoofing", insId), "Spoofing: " \o Str(pvt.spoofing))
          d11 == setText(d10, Id(g \o "-interference", insId),
                         "Interference: " \o Str(pvt.interference))
          d12 == setText(d11, Id(g \o "-osnma", insId), "OSNMA: " \o Str(pvt.osnma))
          d13 == setText(d12, Id(g \o "-num-sv", insId),
                         "SV: " \o ToString(pvt.numSvUsed) \o " / "
                             \o ToString(pvt.numSvTracked))
      IN  IF gm.status # "enabled" THEN Done(d2)
          ELSE IF ~pvt.present THEN Thrown(d2)     \* gnssMeasurements.pvt.status
          ELSE Done(updateGNSSSignals(d13, insId, g, pvt.signals))

\* updateGNSSMeasurements(insId, gnssId, gnssMeasurements); g is `gnss${gnssId}`
updateGNSSMeasurements(d, insId, g, gm) ==
    IF ~gm.present THEN Done(d)
    ELSE
      LET pvt == gm.pvt
          d1 == setHidden(d, Id(g \o "-section", insId), gm.status = "disabled")
          d2 == setTextClass(d1, Id(g \o "-status", insId), gm.status,
                             "gnss-status-" \o gm.status)
          d3 == setTextClass(d2, Id(g \o "-pvt-status", insId), pvt.status,
                             gnssSolutionClass(pvt.status))
          d4 == updateElement(d3, Id(g \o "-lat", insId), formatCoordinate(pvt.latitude))
          d5 == updateElement(d4, Id(g \o "-lon", insId), formatCoordinate(pvt.longitude))
          d6 == updateElement(d5, Id(g \o "-alt", insId), formatNumber(pvt.height, 1, ""))
          d7 == updateElement(d6, Id(g \o "-lat-std", insId),
                              "+/- " \o formatNumber(pvt.latitudeStd, 3, "m"))
          d8 == updateElement(d7, Id(g \o "-lon-std", insId),
                              "+/- " \o formatNumber(pvt.longitudeStd, 3, "m"))
          d9 == updateElement(d8, Id(g \o "-alt-std", insId),
                              "+/- " \o formatNumber(pvt.heightStd, 3, "m"))
          d10 == setText(d9, Id(g \o "-spoofing", insId), "Spoofing: " \o Str(pvt.spoofing))
          d11 == setText(d10, Id(g \o "-interference", insId),
                         "Interference: " \o Str(pvt.interference))
          d12 == setText(d11, Id(g \o "-osnma", insId), "OSNMA: " \o Str(pvt.osnma))
          d13 == setText(d12, Id(g \o "-num-sv", insId),
                         "SV: " \o ToString(pvt.numSvUsed) \o " / "
                             \o ToString(pvt.numSvTracked))
      IN  IF gm.status # "enabled" THEN Done(d2)
          ELSE IF ~pvt.present THEN Thrown(d2)     \* gnssMeasurements.pvt.status
          ELSE Done(updateGNSSSignals(d13, insId, g, pvt.signals))

\* the EKF panel classifying with the switch of the GNSS panel
ekfSolutionClass_asGnss(insSolutionType) == gnssSolutionClass(insSolutionType)

\* the switch on insSolutionType
ekfSolutionClass(insSolutionType) ==
    CASE insSolutionType = "invalid" -> "solution-type solution-error"
      [] insSolutionType \in {"vg", "inertial", "velConst", "odometer", "airData",
                              "dvl", "gnssVel", "gnssUnknown"} ->
             "solution-type solution-degraded"
      [] insSolutionType \in {"singlePoint", "dgps", "sbas", "rtkFloat", "pppFloat"} ->
             "solution-type solution-good"
      [] insSolutionType \in {"rtkFixed", "pppFixed"} -> "solution-type solution-best"
      [] OTHER -> "solution-type solution-unknown"

\* ekf?.posStd[i]: undefined when ekf is missing or the vector is too short
posStdAt(ekf, i) ==
    IF ekf.present /\ i <= Len(ekf.posStd.v) THEN ekf.posStd.v[i] ELSE None

\* updateEkfMeasurements(insId, ekf, insSolutionType, insSolutionAligned)
updateEkfMeasurements(d, insId, ekf, insSolutionType, insSolutionAligned) ==
    LET d1 == setTextClass(d, Id("ekf-ins-solution-type", insId), insSolutionType,
                           ekfSolutionClass(insSolutionType))
        d2 == setTextClass(d1, Id("ekf-ins-solution-aligned", insId),
                           IF insSolutionAligned THEN "Aligned" ELSE "Not Aligned",
                           "solution-type " \o (IF insSolutionAligned THEN "solution-best"
                                                ELSE "solution-degraded"))
        d3 == updateElement(d2, Id("ekf-lat", insId),
                  formatCoordinate(IF ekf.present THEN ekf.latitude ELSE None))
        d4 == updateElement(d3, Id("ekf-lon", insId),
                  formatCoordinate(IF ekf.present THEN ekf.longitude ELSE None))
        d5 == updateElement(d4, Id("ekf-alt", insId),
                  formatNumber(IF ekf.present THEN ekf.altitude ELSE None, 1, ""))
        d6 == updateElement(d5, Id("ekf-lat-std", insId),
                  "+/- " \o formatNumber(posStdAt(ekf, 1), 3, "m"))
        d7 == updateElement(d6, Id("ekf-lon-std", insId),
                  "+/- " \o formatNumber(posStdAt(ekf, 2), 3, "m"))
        d8 == updateElement(d7, Id("ekf-alt-std", insId),
                  "+/- " \o formatNumber(posStdAt(ekf, 3), 3, "m"))
    IN  IF ekf.present /\ ~ekf.posStd.present
        THEN Thrown(d5)                   \* ekf.posStd[0] with posStd undefined
        ELSE Done(d8)

\* the iteration showing a GNSS row when the constituent is used, not when its
\* channel is enabled
insSolutionEntry_byUsedFlag(d, insId, status, constName) ==
    LET iId == Id("ekf-solution-item-" \o constName, insId)
        constUsed == status.ins.used[constName]
        d1 == setTextClass(d, Id("ekf-solution-" \o constName, insId),
                           IF constUsed THEN "(ok)" ELSE "(ko)",
                           "ekf-status-icon " \o (IF constUsed THEN "ekf-status-ok"
                                                  ELSE "ekf-status-ko"))
        enabled == constUsed
    IN  IF constName \in Gnss1Names \cup Gnss2Names /\ iId \in DOMAIN d
        THEN IF ~status.aiding.present
             THEN Thrown(d1)              \* status.aiding.gnss1 read on undefined
             ELSE Done(setStyleDisplay(d1, iId, IF enabled THEN "flex" ELSE "none"))
        ELSE Done(d1)

\* One iteration of the forEach of updateInsSolution, for the entry constName.
insSolutionEntry(d, insId, status, constName) ==
    LET iId == Id("ekf-solution-item-" \o constName, insId)
        constUsed == status.ins.used[constName]
        d1 == setTextClass(d, Id("ekf-solution-" \o constName, insId),
                           IF constUsed THEN "(ok)" ELSE "(ko)",
                           "ekf-status-icon " \o (IF constUsed THEN "ekf-status-ok"
                                                  ELSE "ekf-status-ko"))
        enabled == IF constName \in Gnss1Names THEN status.aiding.gnss1Enabled
                   ELSE status.aiding.gnss2Enabled
    IN  IF constName \in Gnss1Names \cup Gnss2Names /\ iId \in DOMAIN d
        THEN IF ~status.aiding.present
             THEN Thrown(d1)              \* status.aiding.gnss1 read on undefined
             ELSE Done(setStyleDisplay(d1, iId, IF enabled THEN "flex" ELSE "none"))
        ELSE Done(d1)

\* The order in which Object.entries(status.ins) yields the constituents.  The
\* entries `type` and `alignment` of status.ins have no element on the page
\* and match neither 'gnss1' nor 'gnss2': their iterations write nothing.
ConstOrder == <<"gnss1Pos", "gnss2Pos", "odometer">>

RECURSIVE insSolutionLoop(_, _, _, _)
insSolutionLoop(d, insId, status, names) ==
    IF names = <<>> THEN Done(d)
    ELSE Bind(insSolutionEntry(d, insId, status, Head(names)),
              LAMBDA d1 : insSolutionLoop(d1, insId, status, Tail(names)))

\* updateInsSolution(insId, status)
updateInsSolution(d, insId, status) ==
    IF status.ins.present THEN insSolutionLoop(d, insId, status, ConstOrder) ELSE Done(d)

\* Lines 77-86 of updateINSCard: the sub-panels of an online unit.
updateOnlinePanels(d, insId, data) ==
    IF ~data.status.present \/ ~data.ins_measurement.present
    THEN Thrown(d)                        \* data.status.utc / data.ins_measurement.dateTime
    ELSE
      Bind(updateUTCStatus(d, insId, data.status.utc, data.ins_measurement.dateTime),
        LAMBDA d1 :
      Bind(updateDataLogger(d1, insId, data.datalogger),
        LAMBDA d2 :
      Bind(updateGNSSMeasurements(d2, insId, "gnss1", data.gnss1_measurement),
        LAMBDA d3 :
      Bind(updateGNSSMeasurements(d3, insId, "gnss2", data.gnss2_measurement),
        LAMBDA d4 :
      IF ~data.status.ins.present THEN Thrown(d4)          \* data.status.ins.type
      ELSE
      Bind(updateEkfMeasurements(d4, insId, data.ins_measurement.ekf,
                                 data.status.ins.type, data.status.ins.alignment),
        LAMBDA d5 : updateInsSolution(d5, insId, data.status))))))

\* updateINSCard with the `if (!data.online) { return; }` of line 75 left out
updateINSCard_noEarlyReturn(d, insId, entry) ==
    IF ~entry.hasData THEN Thrown(d)
    ELSE
      LET data == entry.data
          eId == Id("error", insId)
          d1 == setClass(d, Id("status", insId),
                         "status-indicator " \o (IF Truthy(data.online) THEN "status-online"
                                                 ELSE "status-offline"))
          d2 == IF ~Falsy(data.error_message) /\ ~Truthy(data.online)
                THEN setStyleDisplay(setText(d1, eId, "Erreur: " \o data.error_message),
                                     eId, "block")
                ELSE setStyleDisplay(d1, eId, "none")
      IN  updateOnlinePanels(d2, insId, data)

\* updateINSCard without the else branch that hides the error slot
updateINSCard_errorLeftShown(d, insId, entry) ==
    IF ~entry.hasData THEN Thrown(d)
    ELSE
      LET data == entry.data
          eId == Id("error", insId)
          d1 == setClass(d, Id("status", insId),
                         "status-indicator " \o (IF Truthy(data.online) THEN "status-online"
                                                 ELSE "status-offline"))
          d2 == IF ~Falsy(data.error_message) /\ ~Truthy(data.online)
                THEN setStyleDisplay(setText(d1, eId, "Erreur: " \o data.error_message),
                                     eId, "block")
                ELSE d1
      IN  IF ~Truthy(data.online) THEN Done(d2) ELSE updateOnlinePanels(d2, insId, data)

\* updateINSCard(insId, data); entry is the snapshot's value for insId and
\* entry.data the `data` argument.
updateINSCard(d, insId, entry) ==
    IF ~entry.hasData THEN Thrown(d)      \* data.online read on undefined
    ELSE
      LET data == entry.data
          eId == Id("error", insId)
          d1 == setClass(d, Id("status", insId),
                         "status-indicator " \o (IF Truthy(data.online) THEN "status-online"
                                                 ELSE "status-offline"))
          d2 == IF ~Falsy(data.error_message) /\ ~Truthy(data.online)
                THEN setStyleDisplay(setText(d1, eId, "Erreur: " \o data.error_message),
                                     eId, "block")
                ELSE setStyleDisplay(d1, eId, "none")
      IN  IF ~Truthy(data.online) THEN Done(d2) ELSE updateOnlinePanels(d2, insId, data)

\* The forEach of updateDisplay over Object.entries(allData), from entry i on.
RECURSIVE displayLoop(_, _, _)
displayLoop(d, entries, i) ==
    IF i > Len(entries) THEN Done(d)
    ELSE LET insId == entries[i].id
         IN  Bind(updateINSCard(d, insId, entries[i].entry),
                  LAMBDA d1 :
                    displayLoop(updateElement(d1, Id("timestamp", insId),
                                    "Last update : " \o Str(entries[i].entry.timestamp)),
                                entries, i + 1))

\* the online count with the filter left out: every unit counts
onlineCount_all(entries) == Len(entries)

\* Object.values(allData).filter(data => data.data.online).length
onlineCount(entries) ==
    Cardinality({i \in 1..Len(entries) : Truthy(entries[i].entry.data.online)})

\* updateDisplay(allData).  allData is the parsed body: the JSON null
\* (isObject FALSE), or a mapping given as the sequence of its entries in key
\* order.
updateDisplay(d, allData) ==
    IF ~allData.isObject THEN Thrown(d)   \* Object.entries(null)
    ELSE Bind(displayLoop(d, allData.entries, 1),
              LAMBDA d1 :
                Done(updateSystemStatus(d1,
                       "Online : " \o ToString(onlineCount(allData.entries)) \o "/"
                           \o ToString(Len(allData.entries)),
                       onlineCount(allData.entries) > 0)))

----------------------------------------------------------------------------
(* What /api/data answers: the unit records the model draws from *)

Absent == [present |-> FALSE]

Pvt1 ==
    [present |-> TRUE, status |-> "rtkFixed",
     latitude |-> Some(48), longitude |-> Some(2), height |-> Some(120),
     latitudeStd |-> Some(1), longitudeStd |-> Some(1), heightStd |-> Some(2),
     spoofing |-> "clean", interference |-> "clean", osnma |-> "valid",
     numSvUsed |-> 12, numSvTracked |-> 20,
     signals |-> [present |-> TRUE,
                  used |-> [c \in SignalNames |-> c = "gpsL1"]]]

Pvt2 ==
    [present |-> TRUE, status |-> "noSolution",
     latitude |-> Some(49), longitude |-> Some(3), height |-> None,
     latitudeStd |-> Some(5), longitudeStd |-> Some(6), heightStd |-> None,
     spoofing |-> "spoofed", interference |-> "jammed", osnma |-> Undef,
     numSvUsed |-> 0, numSvTracked |-> 7,
     signals |-> [present |-> TRUE,
                  used |-> [c \in SignalNames |-> c = "galileoE1"]]]

Data1 ==
    [online |-> "true", error_message |-> Undef,
     status |-> [present |-> TRUE,
                 utc |-> [present |-> TRUE, utcStatus |-> "valid", clockStatus |-> "valid"],
                 ins |-> [present |-> TRUE, type |-> "rtkFixed", alignment |-> TRUE,
                          used |-> [c \in ConstNames |-> TRUE]],
                 aiding |-> [present |-> TRUE, gnss1Enabled |-> TRUE,
                             gnss2Enabled |-> FALSE]],
     ins_measurement |->
         [present |-> TRUE, dateTime |-> "2025-09-15T10:00:00",
          ekf |-> [present |-> TRUE, latitude |-> Some(48), longitude |-> Some(2),
                   altitude |-> Some(120),
                   posStd |-> [present |-> TRUE, v |-> <<Some(1), Some(1), Some(2)>>]]],
     datalogger |-> [present |-> TRUE, status |-> "recording", mode |-> "normal",
                     usedSpace |-> 512, totalSpace |-> 2048],
     gnss1_measurement |-> [present |-> TRUE, status |-> "enabled", pvt |-> Pvt1],
     gnss2_measurement |-> [present |-> TRUE, status |-> "disabled", pvt |-> Absent]]

Data2 ==
    [online |-> "true", error_message |-> "stale",
     status |-> [present |-> TRUE,
                 utc |-> [present |-> TRUE, utcStatus |-> "invalid",
                          clockStatus |-> "steering"],
                 ins |-> [present |-> TRUE, type |-> "inertial", alignment |-> FALSE,
                          used |-> [c \in ConstNames |-> FALSE]],
                 aiding |-> [present |-> TRUE, gnss1Enabled |-> FALSE,
                             gnss2Enabled |-> TRUE]],
     ins_measurement |->
         [present |-> TRUE, dateTime |-> "2025-09-15T10:00:05",
          ekf |-> [present |-> TRUE, latitude |-> Some(49), longitude |-> Some(3),
                   altitude |-> Some(0),
                   posStd |-> [present |-> TRUE, v |-> <<Some(7), Some(8), Some(9)>>]]],
     datalogger |-> [present |-> TRUE, status |-> "stopped", mode |-> "noClose",
                     usedSpace |-> 1536, totalSpace |-> 4096],
     gnss1_measurement |-> [present |-> TRUE, status |-> "disabled", pvt |-> Absent],
     gnss2_measurement |-> [present |-> TRUE, status |-> "enabled", pvt |-> Pvt2]]

\* online records in which one sub-field is missing
NoLoggerData == [Data1 EXCEPT !.datalogger = Absent]
NoPvtData == [Data1 EXCEPT !.gnss1_measurement.pvt = Absent]

\* an offline unit carries the flag and the message only
OfflineData(msg) ==
    [online |-> "false", error_message |-> msg, status |-> Absent,
     ins_measurement |-> Absent, datalogger |-> Absent,
     gnss1_measurement |-> Absent, gnss2_measurement |-> Absent]

\* `data` is an object without any of its fields
EmptyData == [OfflineData(Undef) EXCEPT !.online = Undef]

Entry(ts, data) == [timestamp |-> ts, hasData |-> TRUE, data |-> data]

UnitEntries ==
    { Entry("10:00:01", Data1),
      Entry("10:00:02", Data2),
      Entry("10:00:03", OfflineData("timeout")),
      Entry("10:00:04", OfflineData(Undef)),
      \* offline, with the blocks of the last contact still in the record
      Entry("10:00:06", [Data2 EXCEPT !.online = "false", !.error_message = "lost"]),
      Entry("10:00:07", NoLoggerData),
      Entry("10:00:08", NoPvtData),
      Entry(Undef, EmptyData),                                     \* no online, no timestamp
      [timestamp |-> "10:00:05", hasData |-> FALSE, data |-> EmptyData] }  \* no data

\* the records that appear in the bodies with two units
PairEntries ==
    { Entry("10:00:01", Data1),
      Entry("10:00:03", OfflineData("timeout")),
      [timestamp |-> "10:00:05", hasData |-> FALSE, data |-> EmptyData] }

\* The entries of a mapping, in the order the body lists its keys: no unit,
\* unit A alone with any of the records, or A with data followed by B.
EntrySeqs ==
    {<<>>}
    \cup {<<[id |-> "A", entry |-> e]>> : e \in UnitEntries}
    \cup {<<[id |-> "A", entry |-> e1], [id |-> "B", entry |-> e2]>> :
            <<e1, e2>> \in {e \in PairEntries : e.hasData} \X PairEntries}

NullBody == [isObject |-> FALSE, entries |-> <<>>]
DataBodies == {[isObject |-> TRUE, entries |-> es] : es \in EntrySeqs} \cup {NullBody}

----------------------------------------------------------------------------
(* TrajectoryMonitor: the map *)

INS_CONFIGS == {"A", "B"}                 \* keys of window.INS_CONFIGS
PositionUnits == INS_CONFIGS \cup {"Z"}   \* keys /api/positions may use

\* latitude and longitude in units of 1e-7 degree
MapCenter == <<489100065, 21662488>>
\* the fixes of a unit's track, oldest first
Track == [i \in 1..MaxPathLen |-> <<489100000 + 100 * i, 21662400 + 100 * i>>]

\* the position list after n fixes, newest first
History(n) == [i \in 1..n |-> Track[n + 1 - i]]
PositionLists == {History(n) : n \in 0..MaxPathLen}

\* a body of /api/positions: a mapping from some unit ids to position lists;
\* the unit without configuration reports a single fix when it is listed
PositionBodies ==
    {b \in UNION {[S -> PositionLists] : S \in SUBSET PositionUnits} :
        "Z" \in DOMAIN b => Len(b["Z"]) = 1}

\* the marker without the setOpacity(0) of init()
NewMarker_shown == [latlng |-> MapCenter, opacity |-> 1, onMap |-> FALSE]

\* the polyline and the marker init() creates for a unit
NewTrajectory == <<>>                     \* L.polyline([], ...)
NewMarker == [latlng |-> MapCenter, opacity |-> 0, onMap |-> FALSE]

\* updateDisplay without the test `positions[insId].length > 0`: an empty list
\* empties the path and shows the marker where it is
TrajectoryMonitor_updateDisplay_noLengthCheck(t, mk, positions) ==
    LET hit(insId) == insId \in DOMAIN positions /\ insId \in DOMAIN t
    IN  [trajectories |->
            [insId \in DOMAIN t |->
                IF hit(insId) THEN positions[insId] ELSE t[insId]],
         currentMarkers |->
            [insId \in DOMAIN mk |->
                IF hit(insId)
                THEN [latlng |-> IF positions[insId] # <<>> THEN positions[insId][1]
                                 ELSE mk[insId].latlng,
                      opacity |-> 1, onMap |-> TRUE]
                ELSE mk[insId]]]

\* updateDisplay adding the list to the path (addLatLng) instead of replacing it
TrajectoryMonitor_updateDisplay_append(t, mk, positions) ==
    LET hit(insId) == /\ insId \in DOMAIN positions
                      /\ insId \in DOMAIN t
                      /\ Len(positions[insId]) > 0
    IN  [trajectories |->
            [insId \in DOMAIN t |->
                IF hit(insId) THEN t[insId] \o positions[insId] ELSE t[insId]],
         currentMarkers |->
            [insId \in DOMAIN mk |->
                IF hit(insId)
                THEN [latlng |-> positions[insId][1], opacity |-> 1, onMap |-> TRUE]
                ELSE mk[insId]]]

\* TrajectoryMonitor.updateDisplay(positions) on the pair of trajectories and
\* currentMarkers
TrajectoryMonitor_updateDisplay(t, mk, positions) ==
    LET hit(insId) == /\ insId \in DOMAIN positions
                      /\ insId \in DOMAIN t
                      /\ Len(positions[insId]) > 0
    IN  [trajectories |->
            [insId \in DOMAIN t |->
                IF hit(insId) THEN positions[insId] ELSE t[insId]],
         currentMarkers |->
            [insId \in DOMAIN mk |->
                IF hit(insId)
                THEN [latlng |-> positions[insId][1], opacity |-> 1, onMap |-> TRUE]
                ELSE mk[insId]]]

----------------------------------------------------------------------------
(* Responses of the two endpoints *)

NoResponse == [kind |-> "none"]
\* no renderer or formatter was applied on its own
NoCall == [fn |-> "none", id |-> "", str |-> "", flag |-> FALSE, num |-> 0, out |-> ""]
\* fetch() rejected, or the response is not ok
Failures == {[kind |-> "rejected"], [kind |-> "notOk"]}
DataResponses == Failures \cup {[kind |-> "json", body |-> b] : b \in DataBodies}
PositionResponses == Failures \cup {[kind |-> "json", body |-> b] : b \in PositionBodies}

----------------------------------------------------------------------------
(* The poll loops *)

\* The synchronous part of fetchData(): the call of fetch().
fetch(m) ==
    /\ issued' = [issued EXCEPT ![m] = @ + 1]
    /\ inflight' = [inflight EXCEPT ![m] = @ \cup {issued[m] + 1}]

\* setInterval(...) and the assignment of its id
setInterval(m) ==
    /\ intervalId' = [intervalId EXCEPT ![m] = @ + 1]
    /\ timers' = [timers EXCEPT ![m] = @ \cup {intervalId[m] + 1}]

\* stopMonitoring without the clearInterval call
clearInterval_forgotten(m) == timers' = timers

\* if (this.intervalId) clearInterval(this.intervalId)
clearInterval(m) ==
    timers' = [timers EXCEPT ![m] = IF intervalId[m] # 0 THEN @ \ {intervalId[m]} ELSE @]

\* the handler that runs is not a startMonitoring call that returns at once
NoStartIgnored == startIgnored' = [m \in Monitors |-> FALSE]

Init ==
    /\ loaded \in Monitors
    \* the constructor has run init() and so startMonitoring()
    /\ isRunning = [m \in Monitors |-> m = loaded]
    /\ intervalId = [m \in Monitors |-> IF m = loaded THEN 1 ELSE 0]
    /\ timers = [m \in Monitors |-> IF m = loaded THEN {1} ELSE {}]
    /\ issued = [m \in Monitors |-> IF m = loaded THEN 1 ELSE 0]
    /\ inflight = [m \in Monitors |-> IF m = loaded THEN {1} ELSE {}]
    /\ display = IF loaded = "ins"
                 THEN updateSystemStatus([id \in ElementIds |-> BlankElement],
                                         "Running...", TRUE)
                 ELSE <<>>
    /\ trajectories = IF loaded = "traj" THEN [u \in INS_CONFIGS |-> NewTrajectory]
                      ELSE <<>>
    /\ currentMarkers = IF loaded = "traj" THEN [u \in INS_CONFIGS |-> NewMarker]
                        ELSE <<>>
    /\ lastResp = [m \in Monitors |-> NoResponse]
    /\ rendersAfterStop = 0
    /\ everNonEmpty = [u \in INS_CONFIGS |-> FALSE]
    /\ lastRendered = [m \in Monitors |-> 0]
    /\ call = NoCall
    /\ startIgnored = [m \in Monitors |-> FALSE]

\* startMonitoring without `if (this.isRunning) return;`
INSMonitor_startMonitoring_unguarded ==
    /\ loaded = "ins"
    /\ issued["ins"] < MaxRequests
    /\ intervalId["ins"] < MaxStarts
    /\ isRunning' = [isRunning EXCEPT !["ins"] = TRUE]
    /\ fetch("ins")
    /\ setInterval("ins")
    /\ display' = updateSystemStatus(display, "Running...", TRUE)
    /\ rendersAfterStop' = 0
    /\ startIgnored' = [m \in Monitors |-> m = "ins" /\ isRunning["ins"]]
    /\ UNCHANGED <<loaded, trajectories, currentMarkers, lastResp, everNonEmpty,
                   lastRendered, call>>

\* INSMonitor.startMonitoring()
INSMonitor_startMonitoring ==
    /\ loaded = "ins"
    /\ IF isRunning["ins"]
       THEN /\ startIgnored' = [m \in Monitors |-> m = "ins"]
            /\ UNCHANGED progVars
       ELSE /\ issued["ins"] < MaxRequests
            /\ NoStartIgnored
            /\ intervalId["ins"] < MaxStarts
            /\ isRunning' = [isRunning EXCEPT !["ins"] = TRUE]
            /\ fetch("ins")
            /\ setInterval("ins")
            /\ display' = updateSystemStatus(display, "Running...", TRUE)
            /\ rendersAfterStop' = 0
            /\ UNCHANGED <<loaded, trajectories, currentMarkers, lastResp, everNonEmpty,
                   lastRendered, call>>

\* INSMonitor.stopMonitoring()
INSMonitor_stopMonitoring ==
    /\ loaded = "ins"
    /\ NoStartIgnored
    /\ isRunning' = [isRunning EXCEPT !["ins"] = FALSE]
    /\ clearInterval("ins")
    /\ display' = updateSystemStatus(display, "Stopped", FALSE)
    /\ rendersAfterStop' = 0
    /\ UNCHANGED <<loaded, intervalId, issued, inflight, trajectories, currentMarkers,
                   lastResp, everNonEmpty,
                   lastRendered, call>>

\* The interval callback of INSMonitor: () => this.fetchData()
INSMonitor_interval ==
    /\ \E t \in timers["ins"] : TRUE
    /\ NoStartIgnored
    /\ issued["ins"] < MaxRequests
    /\ fetch("ins")
    /\ UNCHANGED <<loaded, isRunning, intervalId, timers, display, trajectories,
                   currentMarkers, lastResp, rendersAfterStop, everNonEmpty,
                   lastRendered, call>>

\* a catch block that only logs
INSMonitor_catch_silent(d) == d

\* the catch block of INSMonitor.fetchData()
INSMonitor_catch(d) == updateSystemStatus(d, "Connection error", FALSE)

\* INSMonitor.fetchData() from the settling of fetch() on: request r gets the
\* response resp.
INSMonitor_fetchData(r, resp) ==
    /\ r \in inflight["ins"]
    /\ NoStartIgnored
    /\ inflight' = [inflight EXCEPT !["ins"] = @ \ {r}]
    /\ lastResp' = [lastResp EXCEPT !["ins"] = resp]
    /\ lastRendered' = IF resp.kind = "json" /\ r > lastRendered["ins"]
                       THEN [lastRendered EXCEPT !["ins"] = r]
                       ELSE lastRendered
    /\ IF resp.kind = "json"
       THEN \E res \in {updateDisplay(display, resp.body)} :
                /\ display' = IF res.thrown THEN INSMonitor_catch(res.d) ELSE res.d
                /\ rendersAfterStop' =
                       IF ~res.thrown /\ ~isRunning["ins"] THEN rendersAfterStop + 1
                       ELSE rendersAfterStop
       ELSE /\ display' = INSMonitor_catch(display)
            /\ UNCHANGED rendersAfterStop
    /\ UNCHANGED <<loaded, isRunning, intervalId, timers, issued, trajectories,
                   currentMarkers, everNonEmpty, call>>

\* TrajectoryMonitor.startMonitoring()
TrajectoryMonitor_startMonitoring ==
    /\ loaded = "traj"
    /\ IF isRunning["traj"]
       THEN /\ startIgnored' = [m \in Monitors |-> m = "traj"]
            /\ UNCHANGED progVars
       ELSE /\ issued["traj"] < MaxRequests
            /\ NoStartIgnored
            /\ intervalId["traj"] < MaxStarts
            /\ isRunning' = [isRunning EXCEPT !["traj"] = TRUE]
            /\ fetch("traj")
            /\ setInterval("traj")
            /\ UNCHANGED <<loaded, display, trajectories, currentMarkers, lastResp,
                           rendersAfterStop, everNonEmpty,
                   lastRendered, call>>

\* TrajectoryMonitor.stopMonitoring()
TrajectoryMonitor_stopMonitoring ==
    /\ loaded = "traj"
    /\ NoStartIgnored
    /\ isRunning' = [isRunning EXCEPT !["traj"] = FALSE]
    /\ clearInterval("traj")
    /\ UNCHANGED <<loaded, intervalId, issued, inflight, display, trajectories,
                   currentMarkers, lastResp, rendersAfterStop, everNonEmpty,
                   lastRendered, call>>

\* The interval callback of TrajectoryMonitor: () => this.fetchData()
TrajectoryMonitor_interval ==
    /\ \E t \in timers["traj"] : TRUE
    /\ NoStartIgnored
    /\ issued["traj"] < MaxRequests
    /\ fetch("traj")
    /\ UNCHANGED <<loaded, isRunning, intervalId, timers, display, trajectories,
                   currentMarkers, lastResp, rendersAfterStop, everNonEmpty,
                   lastRendered, call>>

\* TrajectoryMonitor.fetchData() from the settling of fetch() on
TrajectoryMonitor_fetchData(r, resp) ==
    /\ r \in inflight["traj"]
    /\ NoStartIgnored
    /\ inflight' = [inflight EXCEPT !["traj"] = @ \ {r}]
    /\ lastResp' = [lastResp EXCEPT !["traj"] = resp]
    /\ lastRendered' = IF resp.kind = "json" /\ r > lastRendered["traj"]
                       THEN [lastRendered EXCEPT !["traj"] = r]
                       ELSE lastRendered
    /\ IF resp.kind = "json"
       THEN \E res \in {TrajectoryMonitor_updateDisplay(trajectories, currentMarkers,
                                                            resp.body)} :
                /\ trajectories' = res.trajectories
                /\ currentMarkers' = res.currentMarkers
                /\ everNonEmpty' =
                       [u \in INS_CONFIGS |->
                           \/ everNonEmpty[u]
                           \/ (u \in DOMAIN resp.body /\ resp.body[u] # <<>>)]
       ELSE UNCHANGED <<trajectories, currentMarkers, everNonEmpty>>
    /\ UNCHANGED <<loaded, isRunning, intervalId, timers, issued, display,
                   rendersAfterStop, call>>

Next ==
    \/ INSMonitor_startMonitoring
    \/ INSMonitor_stopMonitoring
    \/ INSMonitor_interval
    \/ \E r \in 1..MaxRequests, resp \in DataResponses : INSMonitor_fetchData(r, resp)
    \/ TrajectoryMonitor_startMonitoring
    \/ TrajectoryMonitor_stopMonitoring
    \/ TrajectoryMonitor_interval
    \/ \E r \in 1..MaxRequests, resp \in PositionResponses :
           TrajectoryMonitor_fetchData(r, resp)

Spec == Init /\ [][Next]_vars

----------------------------------------------------------------------------
(* The renderers and the formatter of INSMonitor applied on their own, to    *)
(* inputs drawn from the sets below, on the page as the markup leaves it.    *)

\* the strings the two switch statements name, and some they do not
PvtStatuses ==
    {"error", "exportRestrictions", "noSolution", "static", "single", "differential",
     "rtkFloat", "pppFloat", "sbas", "rtkFixed", "pppFixed"}
    \cup {"invalid", "RTKFIXED", "fixed"}
InsSolutionTypes ==
    {"invalid", "vg", "inertial", "velConst", "odometer", "airData", "dvl", "gnssVel",
     "gnssUnknown", "singlePoint", "dgps", "sbas", "rtkFloat", "pppFloat", "rtkFixed",
     "pppFixed"}
    \cup {"single", "noSolution", "PPPFIXED"}

\* the ekf argument: complete, missing, or with a two-component posStd
EkfBlocks ==
    {Data1.ins_measurement.ekf, Absent,
     [Data1.ins_measurement.ekf EXCEPT !.posStd.v = <<Some(1), Some(1)>>]}

\* byte counts around the powers of 1024 and around 10 units
Mantissas == {1, 9, 10, 1023}
ByteValues ==
    {v \in UNION {{m * Pow1024(k) + e :
                     m \in {mm \in Mantissas : mm <= 2147483646 \div Pow1024(k)},
                     e \in {-1, 0, 1, 0 - (Pow1024(k) \div 25)}} :
                  k \in 0..MaxUnitStep} : v >= 0}

Functions == {"updateGNSSMeasurements", "updateEkfMeasurements", "formatBytes"}

\* one behaviour applies one of the functions, as often as it likes
InitPure ==
    /\ loaded = "ins"
    /\ isRunning = [m \in Monitors |-> FALSE]
    /\ intervalId = [m \in Monitors |-> 0]
    /\ timers = [m \in Monitors |-> {}]
    /\ issued = [m \in Monitors |-> 0]
    /\ inflight = [m \in Monitors |-> {}]
    /\ display = [id \in ElementIds |-> BlankElement]
    /\ trajectories = <<>>
    /\ currentMarkers = <<>>
    /\ lastResp = [m \in Monitors |-> NoResponse]
    /\ rendersAfterStop = 0
    /\ everNonEmpty = [u \in INS_CONFIGS |-> FALSE]
    /\ lastRendered = [m \in Monitors |-> 0]
    /\ call \in {[NoCall EXCEPT !.fn = f] : f \in Functions}
    /\ startIgnored = [m \in Monitors |-> FALSE]

\* updateGNSSMeasurements(insId, gnssId, gnssMeasurements) for unit A and an
\* enabled channel whose pvt record has the given status
Apply_updateGNSSMeasurements(g, pvtStatus) ==
    /\ call.fn = "updateGNSSMeasurements"
    /\ display' = updateGNSSMeasurements(display, "A", g,
                      [present |-> TRUE, status |-> "enabled",
                       pvt |-> [Pvt1 EXCEPT !.status = pvtStatus]]).d
    /\ call' = [call EXCEPT !.id = Id(g \o "-pvt-status", "A"), !.str = pvtStatus]
    /\ UNCHANGED <<loaded, isRunning, intervalId, timers, issued, inflight,
                   trajectories, currentMarkers, lastResp, rendersAfterStop,
                   everNonEmpty, lastRendered, startIgnored>>

\* updateEkfMeasurements(insId, ekf, insSolutionType, insSolutionAligned) for unit A
Apply_updateEkfMeasurements(ekf, insSolutionType, insSolutionAligned) ==
    /\ call.fn = "updateEkfMeasurements"
    /\ display' = updateEkfMeasurements(display, "A", ekf, insSolutionType,
                                        insSolutionAligned).d
    /\ call' = [call EXCEPT !.id = Id("ekf-ins-solution-type", "A"),
                            !.str = insSolutionType, !.flag = insSolutionAligned]
    /\ UNCHANGED <<loaded, isRunning, intervalId, timers, issued, inflight,
                   trajectories, currentMarkers, lastResp, rendersAfterStop,
                   everNonEmpty, lastRendered, startIgnored>>

\* formatBytes(value)
Apply_formatBytes(value) ==
    /\ call.fn = "formatBytes"
    /\ call' = [call EXCEPT !.id = "formatBytes", !.num = value,
                            !.out = formatBytes(value)]
    /\ UNCHANGED <<loaded, isRunning, intervalId, timers, issued, inflight, display,
                   trajectories, currentMarkers, lastResp, rendersAfterStop,
                   everNonEmpty, lastRendered, startIgnored>>

NextPure ==
    \/ \E g \in {"gnss1", "gnss2"}, pvtStatus \in PvtStatuses :
           Apply_updateGNSSMeasurements(g, pvtStatus)
    \/ \E ekf \in EkfBlocks, insSolutionType \in InsSolutionTypes,
          insSolutionAligned \in BOOLEAN :
           Apply_updateEkfMeasurements(ekf, insSolutionType, insSolutionAligned)
    \/ \E value \in ByteValues : Apply_formatBytes(value)

SpecPure == InitPure /\ [][NextPure]_vars

----------------------------------------------------------------------------
(* Steps and snapshots the properties speak about *)

\* a step in which a fetch of monitor m settled and fetchData ran to its end
Settled(m) == inflight'[m] # inflight[m] /\ issued'[m] = issued[m]

IsFailure(resp) == resp.kind \in {"rejected", "notOk"}
IsJson(resp) == resp.kind = "json"

\* the slots of one unit, and all the per-unit slots of the page
UnitSlots(kinds, insId) == {Id(k, insId) : k \in kinds}
AllUnitSlots == {Id(k, u) : k \in SlotKinds, u \in PageUnits}

SameSlots(ids) == \A id \in ids \cap DOMAIN display : display'[id] = display[id]

\* the unit ids whose record in the body has online = false
OfflineUnits(body) ==
    {body.entries[i].id : i \in {j \in 1..Len(body.entries) :
        /\ body.entries[j].entry.hasData
        /\ body.entries[j].entry.data.online = "false"}}

\* the units updateDisplay reaches: those before the first record without data
RECURSIVE Processed(_, _)
Processed(entries, i) ==
    IF i > Len(entries) \/ ~entries[i].entry.hasData THEN {}
    ELSE {entries[i].id} \cup Processed(entries, i + 1)

\* the units for which updateINSCard ran with a data record: those up to the
\* first record whose render throws
RECURSIVE RenderedUnits(_, _, _)
RenderedUnits(d, entries, i) ==
    IF i > Len(entries) \/ ~entries[i].entry.hasData THEN {}
    ELSE {entries[i].id}
         \cup (IF updateINSCard(d, entries[i].id, entries[i].entry).thrown THEN {}
               ELSE RenderedUnits(d, entries, i + 1))

\* the units whose render ran to its end
RECURSIVE CompletedUnits(_, _, _)
CompletedUnits(d, entries, i) ==
    IF i > Len(entries) \/ updateINSCard(d, entries[i].id, entries[i].entry).thrown
    THEN {}
    ELSE {entries[i].id} \cup CompletedUnits(d, entries, i + 1)

\* the record of unit u in the entries
RecordOf(entries, u) ==
    entries[CHOOSE i \in 1..Len(entries) : entries[i].id = u].entry.data

\* the GNSS channels of a record that are enabled and carry no pvt record
ChannelsWithoutPvt(data) ==
    {g \in {"gnss1", "gnss2"} :
        LET gm == IF g = "gnss1" THEN data.gnss1_measurement ELSE data.gnss2_measurement
        IN  gm.present /\ gm.status = "enabled" /\ ~gm.pvt.present}

\* an online record, complete but for one of: the data-logger block, the pvt
\* record of an enabled channel, the ekf block, a component of ekf.posStd
OneSubFieldAbsent(data) ==
    /\ data.online = "true"
    /\ data.status.present /\ data.status.utc.present /\ data.status.ins.present
    /\ data.status.aiding.present /\ data.ins_measurement.present
    /\ data.gnss1_measurement.present /\ data.gnss2_measurement.present
    /\ Cardinality(ChannelsWithoutPvt(data))
         + (IF data.datalogger.present THEN 0 ELSE 1)
         + (IF /\ data.ins_measurement.ekf.present
               /\ data.ins_measurement.ekf.posStd.present
               /\ Len(data.ins_measurement.ekf.posStd.v) = 3 THEN 0 ELSE 1) = 1

\* the tiers of the two classifiers, as the specification lists them
GnssTier(s) ==
    CASE s \in {"error", "exportRestrictions"} -> "error"
      [] s \in {"noSolution", "static"} -> "degraded"
      [] s \in {"single", "differential", "rtkFloat", "pppFloat"} -> "good"
      [] s \in {"sbas", "rtkFixed", "pppFixed"} -> "best"
      [] OTHER -> "unknown"
EkfTier(s) ==
    CASE s \in {"invalid"} -> "error"
      [] s \in {"vg", "inertial", "velConst", "odometer", "airData", "dvl", "gnssVel",
                "gnssUnknown"} -> "degraded"
      [] s \in {"singlePoint", "dgps", "sbas", "rtkFloat", "pppFloat"} -> "good"
      [] s \in {"rtkFixed", "pppFixed"} -> "best"
      [] OTHER -> "unknown"

\* a slot with a text and a tag is as the markup left it, shows the
\* placeholder without a tag, or has the tag that belongs to its text
TagMatches(e, tag) ==
    \/ e.className = "" /\ e.textContent \in {"", "--"}
    \/ e.className = tag

\* every slot of display d that carries a text and a tag has them matching
TagsMatchTexts(d) ==
    \A u \in PageUnits :
        LET e(kind) == d[Id(kind, u)]
            t(kind) == d[Id(kind, u)].textContent
        IN  /\ TagMatches(e("utc-valid"),
                          "status-info-value status-info-utc-" \o t("utc-valid"))
            /\ TagMatches(e("utc-clock"),
                          "status-info-value status-info-clock-" \o t("utc-clock"))
            /\ TagMatches(e("datalogger-status"),
                          "status-info-value status-info-dlstatus-"
                              \o t("datalogger-status"))
            /\ TagMatches(e("datalogger-mode"),
                          "status-info-value status-info-dlmode-" \o t("datalogger-mode"))
            /\ \A g \in {"gnss1", "gnss2"} :
                   TagMatches(e(g \o "-pvt-status"),
                              "solution-type solution-" \o GnssTier(t(g \o "-pvt-status")))
            /\ TagMatches(e("ekf-ins-solution-type"),
                          "solution-type solution-"
                              \o EkfTier(t("ekf-ins-solution-type")))

\* the record of channel g, and the slots the pvt record of the channel fills
ChannelOf(data, g) ==
    IF g = "gnss1" THEN data.gnss1_measurement ELSE data.gnss2_measurement
PvtSlots(g, u) ==
    UnitSlots(GnssKinds(g) \ {g \o "-section", g \o "-status"}, u)

\* the render of an online record gets as far as channel g: the blocks read
\* before it are there
ReachesChannel(data, g) ==
    /\ data.online = "true"
    /\ data.status.present /\ data.status.utc.present /\ data.ins_measurement.present
    /\ g = "gnss2" => "gnss1" \notin ChannelsWithoutPvt(data)

\* the k with 1024^k <= v < 1024^(k+1), for v >= 1
ByteUnitStep(v) ==
    CHOOSE k \in 0..MaxUnitStep : Pow1024(k) <= v /\ v \div 1024 < Pow1024(k)

\* the text for v bytes, the scaled number having `decimals(k, below10)` decimals
BytesText(v, decimals(_, _)) ==
    IF v = 0 THEN "0 bytes"
    ELSE LET k == ByteUnitStep(v)
         IN  toFixedScaled(v, Pow1024(k), decimals(k, v \div Pow1024(k) < 10))
             \o " " \o units[k + 1]

\* a body of /api/data is structurally valid: a mapping whose records all
\* carry data, the online flag and the timestamp
ValidSnapshot(body) ==
    /\ body.isObject
    /\ \A i \in 1..Len(body.entries) :
          /\ body.entries[i].entry.hasData
          /\ body.entries[i].entry.data.online \in {"true", "false"}
          /\ body.entries[i].entry.timestamp # Undef

----------------------------------------------------------------------------
(* C1: at most one poll request of a monitor is outstanding at any time *)
C1_SinglePollOutstanding ==
    \A m \in Monitors : Cardinality(inflight[m]) <= 1

(* C2 as stated: in a cycle that processes a unit with online = false, every
   slot of that unit other than its status indicator and its error slot keeps
   its value *)
C2_OfflineFreezeAsStated ==
    [][(Settled("ins") /\ IsJson(lastResp'["ins"]) /\ lastResp'["ins"].body.isObject)
         => \A u \in OfflineUnits(lastResp'["ins"].body)
                  \cap Processed(lastResp'["ins"].body.entries, 1) :
               SameSlots(UnitSlots(OtherKinds, u))]_vars

(* C2 amended: in a cycle that processes a unit with online = false, every
   slot of that unit other than its status indicator, its error slot and its
   timestamp slot keeps its value *)
C2_OfflineFreeze ==
    [][(Settled("ins") /\ IsJson(lastResp'["ins"]) /\ lastResp'["ins"].body.isObject)
         => \A u \in OfflineUnits(lastResp'["ins"].body)
                  \cap Processed(lastResp'["ins"].body.entries, 1) :
               SameSlots(UnitSlots(OtherKinds \ {"timestamp"}, u))]_vars

\* an offline record of A carrying its old blocks was rendered over an earlier
\* online render of A
C2_Witness ==
    /\ loaded = "ins"
    /\ IsJson(lastResp["ins"])
    /\ lastResp["ins"].body.entries # <<>>
    /\ lastResp["ins"].body.entries[1].id = "A"
    /\ lastResp["ins"].body.entries[1].entry.hasData
    /\ lastResp["ins"].body.entries[1].entry.data.online = "false"
    /\ lastResp["ins"].body.entries[1].entry.data.status.present
    /\ display[Id("status", "A")].className = "status-indicator status-offline"
    /\ display[Id("utc-valid", "A")].textContent = "valid"

(* C3: a poll that fails at the transport level (fetch rejects, or the
   response is not ok) leaves every per-unit slot, every path and every marker
   as it was; the only change is the system status slot, set to the offline
   indicator *)
C3_TransportFailureContained ==
    [][/\ (Settled("ins") /\ IsFailure(lastResp'["ins"]))
            => /\ SameSlots(DOMAIN display \ {"statusText"})
               /\ display'["statusText"].textContent = "Connection error"
               /\ display'["statusText"].color = "#f44336"
       /\ (Settled("traj") /\ IsFailure(lastResp'["traj"]))
            => /\ trajectories' = trajectories
               /\ currentMarkers' = currentMarkers
               /\ display' = display]_vars

\* a failed poll after a render: the status slot reports it, A keeps its values
C3_Witness ==
    /\ loaded = "ins"
    /\ IsFailure(lastResp["ins"])
    /\ display["statusText"].textContent = "Connection error"
    /\ display[Id("utc-valid", "A")].textContent = "valid"
    /\ display[Id("timestamp", "A")].textContent = "Last update : 10:00:01"

(* C4: when the body of a successful response is structurally invalid (not a
   mapping, or a record without its mandatory fields), no per-unit slot is
   written in that cycle, and the interval that drives the next cycle stays
   active while the monitor is running *)
C4_InvalidSnapshotSkipsRender ==
    [][(Settled("ins") /\ IsJson(lastResp'["ins"])
            /\ ~ValidSnapshot(lastResp'["ins"].body))
         => /\ SameSlots(AllUnitSlots)
            /\ (isRunning'["ins"] => timers'["ins"] # {})]_vars

(* C5: after stopMonitoring at most one further render is applied to the
   display *)
C5_AtMostOneRenderAfterStop == rendersAfterStop <= 1

(* C6: once stopMonitoring has been called, a monitor issues no request until
   startMonitoring is called again; for both monitors *)
C6_NoRequestAfterStop ==
    [][\A m \in Monitors :
          (~isRunning[m] /\ ~isRunning'[m]) => issued'[m] = issued[m]]_vars

\* the trajectory monitor was stopped while its first request was in flight,
\* the request settled since, and nothing else was issued
C6_Witness ==
    /\ loaded = "traj"
    /\ ~isRunning["traj"]
    /\ intervalId["traj"] = 1
    /\ timers["traj"] = {}
    /\ issued["traj"] = 1
    /\ lastResp["traj"] # NoResponse

(* C7: in a cycle of TrajectoryMonitor.updateDisplay, a configured unit whose
   position list is empty, or which the snapshot does not list, keeps its
   path, its marker position and its marker visibility *)
C7_TrajectoryNoRegress ==
    [][(Settled("traj") /\ IsJson(lastResp'["traj"]))
         => \A u \in INS_CONFIGS :
               (u \notin DOMAIN lastResp'["traj"].body
                   \/ lastResp'["traj"].body[u] = <<>>)
               => /\ trajectories'[u] = trajectories[u]
                  /\ currentMarkers'[u] = currentMarkers[u]]_vars

\* an empty list for A was applied while A has a path and a visible marker
C7_Witness ==
    /\ loaded = "traj"
    /\ IsJson(lastResp["traj"])
    /\ "A" \in DOMAIN lastResp["traj"].body
    /\ lastResp["traj"].body["A"] = <<>>
    /\ trajectories["A"] # <<>>
    /\ currentMarkers["A"].opacity = 1
    /\ currentMarkers["A"].onMap

(* C8: in a cycle of TrajectoryMonitor.updateDisplay, every configured unit
   with a non-empty position list ends with that list as its path, the
   list's first element as marker position, and a visible marker *)
C8_TrajectoryReplaced ==
    [][(Settled("traj") /\ IsJson(lastResp'["traj"]))
         => \A u \in INS_CONFIGS \cap DOMAIN lastResp'["traj"].body :
               lastResp'["traj"].body[u] # <<>>
               => /\ trajectories'[u] = lastResp'["traj"].body[u]
                  /\ currentMarkers'[u].latlng = lastResp'["traj"].body[u][1]
                  /\ currentMarkers'[u].opacity = 1
                  /\ currentMarkers'[u].onMap]_vars

\* the second cycle applied a list of two fixes for A
C8_Witness ==
    /\ loaded = "traj"
    /\ issued["traj"] = 2
    /\ inflight["traj"] = {}
    /\ IsJson(lastResp["traj"])
    /\ "A" \in DOMAIN lastResp["traj"].body
    /\ Len(lastResp["traj"].body["A"]) = 2
    /\ trajectories["A"] = lastResp["traj"].body["A"]
    /\ currentMarkers["A"].latlng = lastResp["traj"].body["A"][1]
    /\ currentMarkers["A"].opacity = 1

(* C9: a unit's marker is visible only if an applied snapshot had a non-empty
   position list for the unit; until then the marker is invisible and the
   path is empty *)
C9_MarkerHiddenUntilData ==
    \A u \in DOMAIN currentMarkers :
        /\ (currentMarkers[u].opacity # 0 \/ currentMarkers[u].onMap) => everNonEmpty[u]
        /\ ~everNonEmpty[u] => /\ currentMarkers[u].opacity = 0
                               /\ ~currentMarkers[u].onMap
                               /\ trajectories[u] = <<>>

\* a snapshot with fixes for A and an empty list for B was applied: A is
\* shown, B is still hidden
C9_Witness ==
    /\ loaded = "traj"
    /\ IsJson(lastResp["traj"])
    /\ "B" \in DOMAIN lastResp["traj"].body
    /\ lastResp["traj"].body["B"] = <<>>
    /\ ~everNonEmpty["B"]
    /\ currentMarkers["B"].opacity = 0
    /\ everNonEmpty["A"]
    /\ currentMarkers["A"].opacity = 1

(* C10: after a cycle that rendered a well-formed snapshot to its end, the
   system status slot shows the number of records with online = true over the
   number of records, in the online colour if and only if that number is
   greater than 0 *)
C10_SystemStatusSummary ==
    [][(Settled("ins") /\ IsJson(lastResp'["ins"])
            /\ ValidSnapshot(lastResp'["ins"].body)
            /\ display'["statusText"].textContent # "Connection error")
         => LET entries == lastResp'["ins"].body.entries
                n == Cardinality({i \in 1..Len(entries) :
                                     entries[i].entry.data.online = "true"})
            IN  /\ display'["statusText"].textContent =
                       "Online : " \o ToString(n) \o "/" \o ToString(Len(entries))
                /\ display'["statusText"].color =
                       IF n > 0 THEN "#4CAF50" ELSE "#f44336"]_vars

\* one unit online and one offline: 1/2, shown as up
C10_Witness ==
    /\ loaded = "ins"
    /\ IsJson(lastResp["ins"])
    /\ ValidSnapshot(lastResp["ins"].body)
    /\ Len(lastResp["ins"].body.entries) = 2
    /\ display["statusText"].textContent = "Online : 1/2"
    /\ display["statusText"].color = "#4CAF50"

(* C11: for every unit rendered in a cycle, after updateINSCard the status
   indicator shows the record's online flag, and the error slot is shown, with
   the message, if and only if the unit is not online and the record has an
   error message; otherwise the error slot is hidden, also when an earlier
   cycle had shown it *)
C11_StatusAndErrorSlot ==
    [][(Settled("ins") /\ IsJson(lastResp'["ins"]) /\ lastResp'["ins"].body.isObject)
         => LET entries == lastResp'["ins"].body.entries
            IN  \A u \in RenderedUnits(display, entries, 1) :
                   LET data == RecordOf(entries, u)
                       shown == /\ data.online # "true"
                                /\ data.error_message \notin {Undef, ""}
                   IN  /\ display'[Id("status", u)].className =
                              IF data.online = "true" THEN "status-indicator status-online"
                              ELSE "status-indicator status-offline"
                       /\ display'[Id("error", u)].display =
                              IF shown THEN "block" ELSE "none"
                       /\ shown => display'[Id("error", u)].textContent =
                                       "Erreur: " \o data.error_message]_vars

\* A was offline with a message in an earlier cycle and is online now: the
\* slot still holds the message and is hidden
C11_Witness ==
    /\ loaded = "ins"
    /\ IsJson(lastResp["ins"])
    /\ lastResp["ins"].body.entries # <<>>
    /\ lastResp["ins"].body.entries[1].id = "A"
    /\ lastResp["ins"].body.entries[1].entry.hasData
    /\ lastResp["ins"].body.entries[1].entry.data.online = "true"
    /\ display[Id("status", "A")].className = "status-indicator status-online"
    /\ display[Id("error", "A")].textContent = "Erreur: timeout"
    /\ display[Id("error", "A")].display = "none"

(* C12: when the record of a rendered online unit lacks one expected
   sub-field (the data-logger block, the pvt record of an enabled channel, the
   ekf block, or a component of ekf.posStd), the cycle is not aborted, every
   unit of the snapshot is rendered, the slots of the missing sub-field show
   "--", and the unit's other sub-panels show the values of the record *)
C12_MissingSubFieldDegrades ==
    [][(Settled("ins") /\ IsJson(lastResp'["ins"]) /\ lastResp'["ins"].body.isObject)
         => LET entries == lastResp'["ins"].body.entries
            IN  \A u \in RenderedUnits(display, entries, 1) :
                   LET data == RecordOf(entries, u)
                       txt(kind) == display'[Id(kind, u)].textContent
                   IN  OneSubFieldAbsent(data)
                       => /\ display'["statusText"].textContent # "Connection error"
                          /\ txt("utc-valid") = data.status.utc.utcStatus
                          /\ txt("utc-date") = data.ins_measurement.dateTime
                          /\ txt("ekf-ins-solution-type") = data.status.ins.type
                          /\ ~data.datalogger.present
                                => /\ txt("datalogger-status") = "--"
                                   /\ txt("datalogger-mode") = "--"
                                   /\ txt("datalogger-space") = "--"
                          /\ data.datalogger.present
                                => txt("datalogger-status") = data.datalogger.status
                          /\ \A g \in ChannelsWithoutPvt(data) :
                                 /\ txt(g \o "-pvt-status") = "--"
                                 /\ txt(g \o "-lat") = "--"
                                 /\ txt(g \o "-lon") = "--"
                                 /\ txt(g \o "-alt") = "--"
                          /\ ~data.ins_measurement.ekf.present
                                => /\ txt("ekf-lat") = "--"
                                   /\ txt("ekf-lon") = "--"
                                   /\ txt("ekf-alt") = "--"]_vars

(* C13: after every render that ran to its end, each slot that carries a text
   and a visual-state tag (UTC validity, UTC clock, data-logger status and mode,
   GNSS PVT status, EKF solution type) has the tag that belongs to its text *)
C13_TextAndTagAgree ==
    [][(Settled("ins") /\ IsJson(lastResp'["ins"])
            /\ display'["statusText"].textContent # "Connection error")
         => TagsMatchTexts(display')]_vars

(* C14: for every PVT status string of an enabled channel, the tag written to
   the channel's pvt-status slot is the tier of that string: error for error
   and exportRestrictions; degraded for noSolution and static; good for single,
   differential, rtkFloat and pppFloat; best for sbas, rtkFixed and pppFixed;
   unknown for every other string *)
C14_GnssClassifier ==
    (call.fn = "updateGNSSMeasurements" /\ call.id # "")
    => /\ display[call.id].className = "solution-type solution-" \o GnssTier(call.str)
       /\ display[call.id].textContent = call.str

\* channel 2 was just given a string the switch does not name, while channel
\* 1 shows sbas as best
C14_Witness ==
    /\ call.fn = "updateGNSSMeasurements"
    /\ call.id = Id("gnss2-pvt-status", "A")
    /\ call.str = "RTKFIXED"
    /\ display[Id("gnss2-pvt-status", "A")].className = "solution-type solution-unknown"
    /\ display[Id("gnss1-pvt-status", "A")].textContent = "sbas"
    /\ display[Id("gnss1-pvt-status", "A")].className = "solution-type solution-best"

(* C15: for every INS solution-type string, the tag written to the unit's EKF
   solution-type slot is the tier of that string: error for invalid; degraded
   for vg, inertial, velConst, odometer, airData, dvl, gnssVel and gnssUnknown;
   good for singlePoint, dgps, sbas, rtkFloat and pppFloat; best for rtkFixed
   and pppFixed; unknown for every other string; whatever the alignment flag *)
C15_EkfClassifier ==
    (call.fn = "updateEkfMeasurements" /\ call.id # "")
    => \A insSolutionAligned \in BOOLEAN :
          call.flag = insSolutionAligned
          => /\ display[call.id].className =
                    "solution-type solution-" \o EkfTier(call.str)
             /\ display[call.id].textContent = call.str

\* sbas, which the GNSS switch ranks best, is good here, and the unit is not
\* aligned
C15_Witness ==
    /\ call.fn = "updateEkfMeasurements"
    /\ call.str = "sbas"
    /\ ~call.flag
    /\ display[Id("ekf-ins-solution-type", "A")].className = "solution-type solution-good"
    /\ display[Id("ekf-ins-solution-aligned", "A")].className =
           "solution-type solution-degraded"

(* C16: in a cycle that renders an online unit as far as a GNSS channel, a
   channel with status 'disabled' has its section hidden and none of its PVT
   slots written, and a channel with status 'enabled' has its section shown;
   each channel by its own status *)
C16_DisabledChannelSkipped ==
    [][(Settled("ins") /\ IsJson(lastResp'["ins"]) /\ lastResp'["ins"].body.isObject)
         => LET entries == lastResp'["ins"].body.entries
            IN  \A u \in RenderedUnits(display, entries, 1), g \in {"gnss1", "gnss2"} :
                   LET data == RecordOf(entries, u)
                       gm == ChannelOf(data, g)
                       section == display'[Id(g \o "-section", u)]
                   IN  (ReachesChannel(data, g) /\ gm.present)
                       => /\ gm.status = "disabled"
                                => section.hidden /\ SameSlots(PvtSlots(g, u))
                          /\ gm.status = "enabled" => ~section.hidden]_vars

\* channel 2 of A was enabled in an earlier cycle and is disabled in the last
\* one: its section is hidden and its slots keep the earlier values, while
\* channel 1 is shown with the values of the last snapshot
C16_Witness ==
    /\ loaded = "ins"
    /\ IsJson(lastResp["ins"])
    /\ lastResp["ins"].body.entries # <<>>
    /\ lastResp["ins"].body.entries[1].entry = Entry("10:00:01", Data1)
    /\ display[Id("gnss2-section", "A")].hidden
    /\ display[Id("gnss2-pvt-status", "A")].textContent = "noSolution"
    /\ display[Id("gnss2-lat", "A")].textContent = formatCoordinate(Some(49))
    /\ ~display[Id("gnss1-section", "A")].hidden
    /\ display[Id("gnss1-pvt-status", "A")].textContent = "rtkFixed"

(* C17: after a render of an online unit that ran to its end, every
   constituent row whose name refers to GNSS channel 1 (2) is visible if and
   only if the enabled flag of channel 1 (2) in the record's aiding status is
   true, whatever the constituent's used flag and whatever the row was before *)
C17_ConstituentRowFollowsChannel ==
    [][(Settled("ins") /\ IsJson(lastResp'["ins"]) /\ lastResp'["ins"].body.isObject)
         => LET entries == lastResp'["ins"].body.entries
            IN  \A u \in CompletedUnits(display, entries, 1) :
                   LET data == RecordOf(entries, u)
                       row(c) == display'[Id("ekf-solution-item-" \o c, u)]
                   IN  data.online = "true"
                       => /\ \A c \in Gnss1Names :
                                row(c).display = IF data.status.aiding.gnss1Enabled
                                                 THEN "flex" ELSE "none"
                          /\ \A c \in Gnss2Names :
                                row(c).display = IF data.status.aiding.gnss2Enabled
                                                 THEN "flex" ELSE "none"]_vars

\* after a cycle that hid the row of channel 2, the last cycle shows it again
\* although the constituent is not used, and hides the row of channel 1
C17_Witness ==
    /\ loaded = "ins"
    /\ IsJson(lastResp["ins"])
    /\ lastResp["ins"].body.entries # <<>>
    /\ lastResp["ins"].body.entries[1].entry = Entry("10:00:02", Data2)
    /\ display[Id("gnss1-pvt-status", "A")].textContent = "rtkFixed"
    /\ display[Id("ekf-solution-item-gnss2Pos", "A")].display = "flex"
    /\ display[Id("ekf-solution-gnss2Pos", "A")].className = "ekf-status-icon ekf-status-ko"
    /\ display[Id("ekf-solution-item-gnss1Pos", "A")].display = "none"

(* C18 as stated: formatBytes(0) is "0 bytes"; formatBytes(1024) is "1"
   followed by the kilo unit; a value v with 1024^k <= v < 1024^(k+1) is given
   in the k-th unit, the scaled number with one decimal when it is below 10
   and as an integer otherwise *)
C18_FormatBytesAsStated ==
    (call.fn = "formatBytes" /\ call.id # "")
    => call.out = IF call.num = 1024 THEN "1 kb"
                  ELSE BytesText(call.num, LAMBDA k, below10 : IF below10 THEN 1 ELSE 0)

(* C18 amended: formatBytes(0) is "0 bytes"; a value v with
   1024^k <= v < 1024^(k+1) is given in the k-th unit; the scaled number has
   one decimal when it is below 10 and the unit is not bytes, and is an integer
   otherwise, so that formatBytes(1024) is "1.0 kb" *)
C18_FormatBytes ==
    (call.fn = "formatBytes" /\ call.id # "")
    => /\ call.out = BytesText(call.num,
                                LAMBDA k, below10 : IF below10 /\ k > 0 THEN 1 ELSE 0)
       /\ call.num = 1024 => call.out = "1.0 kb"

\* formatBytes was applied to 1024
C18_Witness ==
    /\ call.fn = "formatBytes"
    /\ call.id # ""
    /\ call.num = 1024
    /\ call.out = "1.0 kb"

(* C19: snapshots are applied in the order their requests were issued: the
   request whose snapshot a cycle renders was issued after every request whose
   snapshot was rendered before; for both monitors *)
C19_RendersInRequestOrder ==
    [][\A m \in Monitors :
          (Settled(m) /\ IsJson(lastResp'[m])) => lastRendered'[m] > lastRendered[m]]_vars

(* C20: from stopMonitoring until the next startMonitoring the system status
   slot shows 'Stopped' in the offline colour, whenever and however the
   requests in flight at the stop complete *)
C20_StoppedStatusKept ==
    (loaded = "ins" /\ ~isRunning["ins"])
    => /\ display["statusText"].textContent = "Stopped"
       /\ display["statusText"].color = "#f44336"

(* C21: whatever startMonitoring and stopMonitoring calls a monitor has taken,
   at most one of its interval timers is active, and one is active exactly
   when isRunning is true; a startMonitoring call that finds the monitor
   running issues no request and creates no timer; for both monitors *)
C21_OneTimerIffRunning ==
    /\ [](\A m \in Monitors :
            /\ Cardinality(timers[m]) <= 1
            /\ timers[m] # {} <=> isRunning[m])
    /\ [][\A m \in Monitors :
            startIgnored'[m] => /\ issued'[m] = issued[m]
                                /\ inflight'[m] = inflight[m]
                                /\ intervalId'[m] = intervalId[m]
                                /\ timers'[m] = timers[m]]_vars

\* startMonitoring was called on the running page monitor after a stop and a
\* restart; the one active timer is the one of the restart
C21_Witness ==
    /\ startIgnored["ins"]
    /\ isRunning["ins"]
    /\ intervalId["ins"] = 2
    /\ timers["ins"] = {2}
    /\ issued["ins"] = 2

====
